---- MODULE Spec2Model ----
(***************************************************************************)
(* Model of lab3/main.cpp: textbook RSA over an arbitrary-precision        *)
(* integer (uint1024): BinPower, IsPrime, GetRandBits, FPrime,             *)
(* ExtendedEuclidian, GenerateRSAKeys, Encode and Decode.                  *)
(*                                                                         *)
(* The state is the position of the program (pc) and the frame of the      *)
(* function that is running or has just returned: its parameters, its      *)
(* locals and its return value, under the names the source gives them.     *)
(* The functions are called from main with arguments drawn from bounded    *)
(* sets; the two unbounded loops of the source (FPrime's acceptance loop   *)
(* and GenerateRSAKeys' retry loop) take one step per iteration.           *)
(***************************************************************************)
EXTENDS Integers, Sequences, FiniteSets, TLC

VARIABLES pc, frame

vars == <<pc, frame>>

(***************************************************************************)
(* Bounds of the model.                                                    *)
(***************************************************************************)
\* BinPower is called with base in 0..MaxBase, power in 0..MaxPower and
\* mod in 1..MaxMod (and the modulus 1000).
MaxBase == 6
MaxPower == 12
MaxMod == 12
\* ExtendedEuclidian is called with both arguments in 0..MaxEuclid.
MaxEuclid == 30
\* IsPrime is called with value in 0..MaxValue.
MaxValue == 4100
\* FPrime and GenerateRSAKeys are called with bit widths 2..MaxBits, every
\* sequence of draws of the engine being possible.
MaxBits == 7
\* FPrime is also called with the width WideBits, where the draws are those
\* that make GetRandBits return a value within WideSpan of a multiple of
\* the exponent e.
WideBits == 20
WideSpan == 2
\* FPrime's iteration counter (never read by the source) stops counting here.
MaxCount == 2
\* GenerateRSAKeys is called with odd primes up to MaxPrime.
MaxPrime == 127
\* Keys handed to Encode and Decode: modulus a product of two odd primes up
\* to MaxCipherPrime, exponents in 1..MaxKeyExp.
MaxCipherPrime == 7
MaxKeyExp == 11

(***************************************************************************)
(* uint1024 arithmetic.  The type holds 4096 bits, so no product or shift  *)
(* of the values below loses bits; the operators here compute the same     *)
(* results within the model checker's 32-bit integers.                     *)
(***************************************************************************)
Min(a, b) == IF a < b THEN a ELSE b

\* (a * b) % m
RECURSIVE MulModSlow(_, _, _)
MulModSlow(a, b, m) ==
    IF b = 0 THEN 0
    ELSE LET h == MulModSlow(a, b \div 2, m)
             d == (h + h) % m
         IN  IF b % 2 = 1 THEN (d + (a % m)) % m ELSE d

MulMod(a, b, m) ==
    IF a < 46341 /\ b < 46341 THEN (a * b) % m ELSE MulModSlow(a, b, m)

\* a | b
RECURSIVE BitOr(_, _)
BitOr(a, b) ==
    IF a = 0 THEN b
    ELSE IF b = 0 THEN a
    ELSE (IF a % 2 = 1 \/ b % 2 = 1 THEN 1 ELSE 0) + 2 * BitOr(a \div 2, b \div 2)

\* a << n
ShiftLeft(a, n) == a * (2 ^ n)

\* (a & (1 << n)) != 0
TestBit(a, n) == (a \div (2 ^ n)) % 2 = 1

(***************************************************************************)
(* BinPower                                                                *)
(***************************************************************************)
RECURSIVE BinPower(_, _, _)

\* BinPower without the multiplication by base for an odd power
BinPowerNoOddStep(base, power, mod) ==
    IF power = 0 THEN 1
    ELSE LET half == BinPower(base, power \div 2, mod)
         IN  MulMod(half, half, mod)

BinPower(base, power, mod) ==
    IF power = 0 THEN 1
    ELSE LET half == BinPower(base, power \div 2, mod)
             value == MulMod(half, half, mod)
         IN  IF power % 2 # 0 THEN MulMod(value, base, mod) ELSE value

(***************************************************************************)
(* IsPrime                                                                 *)
(***************************************************************************)
primes == <<3, 5, 7, 11, 13, 17, 19, 23, 29, 31>>

\* the loop over primes started at the second prime
TrialDivisionFromFive(value) ==
    \E i \in 2..Len(primes) : value % primes[i] = 0

\* the loop over primes: TRUE when it returns false from IsPrime
TrialDivision(value) ==
    \E i \in 1..Len(primes) : value % primes[i] = 0

\* while ((value & (temp << power)) == 0) ++power;   (value is value - 1 here)
RECURSIVE LowestSetBit(_, _)
LowestSetBit(value, power) ==
    IF TestBit(value, power) THEN power ELSE LowestSetBit(value, power + 1)

\* q with the shift one bit too far
OddPartOneShiftMore(value, power) == value \div ShiftLeft(1, power + 1)

\* ++value; q = value / (temp << power)
OddPart(value, power) == value \div ShiftLeft(1, power)

\* for (i = 1; i < power; ++i): the result and the number of squarings made
RECURSIVE SquareLoop(_, _, _, _)
SquareLoop(surplus, value, i, power) ==
    IF i < power
    THEN LET s == MulMod(surplus, surplus, value)
         IN  IF s = value - 1
             THEN [ret |-> TRUE, squarings |-> i]
             ELSE SquareLoop(s, value, i + 1, power)
    ELSE [ret |-> FALSE, squarings |-> i - 1]

\* The run of IsPrime(value): its return value, the steps it went through
\* and, once computed, its locals.
IsPrimeRun(value) ==
    IF TrialDivision(value)
    THEN [ret |-> FALSE, trace |-> <<"trial">>]
    ELSE LET base == 2
             power == LowestSetBit(value - 1, 0)
             q == OddPart(value, power)
             surplus == BinPower(base, q, value)
         IN  IF surplus = 1 \/ surplus = value - 1
             THEN [ret |-> TRUE, trace |-> <<"trial", "decompose", "BinPower">>,
                   power |-> power, q |-> q, surplus |-> surplus, squarings |-> 0]
             ELSE LET loop == SquareLoop(surplus, value, 1, power)
                  IN  [ret |-> loop.ret,
                       trace |-> <<"trial", "decompose", "BinPower", "loop">>,
                       power |-> power, q |-> q, surplus |-> surplus,
                       squarings |-> loop.squarings]

IsPrime(value) == IsPrimeRun(value).ret

(***************************************************************************)
(* GetRandBits and FPrime                                                  *)
(***************************************************************************)
\* uniform_dist(*engine) for each of the bits calls: the draws of one call
\* of GetRandBits, draws[i] being the i-th.
AllDraws(bits) == [0..(bits - 1) -> {0, 1}]

\* The draws that make GetRandBits(bits) return r.
DrawsFor(r, bits) == [i \in 0..(bits - 1) |-> IF TestBit(r, i) THEN 0 ELSE 1]

RECURSIVE GetRandBitsFrom(_, _, _, _)
GetRandBitsFrom(i, value, bits, draws) ==
    IF i < bits
    THEN GetRandBitsFrom(i + 1,
                         IF draws[i] % 2 = 0 THEN BitOr(value, ShiftLeft(1, i)) ELSE value,
                         bits, draws)
    ELSE value

GetRandBits(bits, draws) == GetRandBitsFrom(0, 0, bits, draws)

\* e = BinPower(2, 16, 1000000000) + 1
PublicExp == BinPower(2, 16, 1000000000) + 1

\* mask = (uint1024{3} << (bits - 2)) | 1
Mask(bits) == BitOr(ShiftLeft(3, bits - 2), 1)

\* the acceptance test without value % e != 1
AcceptsWithoutExpFilter(value, e) == IsPrime(value)

\* value % e != 1 && IsPrime(value)
Accepts(value, e) == value % e # 1 /\ IsPrime(value)

\* The values GetRandBits returns at a width above MaxBits: those within
\* WideSpan of a multiple of e.
WideValues(bits) ==
    { r \in { k * PublicExp + j : k \in 0..(((2 ^ bits) - 1) \div PublicExp),
                                 j \in 0..WideSpan } : r < 2 ^ bits }

\* The sequences of draws the model gives one call of GetRandBits(bits).
EngineDraws(bits) ==
    IF bits <= MaxBits
    THEN AllDraws(bits)
    ELSE { DrawsFor(r, bits) : r \in WideValues(bits) }

\* One iteration of FPrime's loop: the candidate it builds.
Candidate(bits, draws) == BitOr(GetRandBits(bits, draws), Mask(bits))

\* Every value FPrime(bits) can return.
FPrimeResults(bits) ==
    { v \in { Candidate(bits, d) : d \in EngineDraws(bits) } : Accepts(v, PublicExp) }

\* GeneratePrime(bitsCount) returns FPrime(bitsCount)
GeneratePrimeResults(bitsCount) == FPrimeResults(bitsCount)

(***************************************************************************)
(* ExtendedEuclidian                                                       *)
(***************************************************************************)
RECURSIVE ExtendedEuclidian(_, _)

\* ExtendedEuclidian without the quotient phi / e
ExtendedEuclidianNoQuotient(e, phi) ==
    IF e = 0 THEN <<0, 1>>
    ELSE LET tmp == ExtendedEuclidian(phi % e, e)
             x1 == tmp[1]
             y1 == tmp[2]
         IN  <<y1 - x1, x1>>

ExtendedEuclidian(e, phi) ==
    IF e = 0 THEN <<0, 1>>
    ELSE LET tmp == ExtendedEuclidian(phi % e, e)
             x1 == tmp[1]
             y1 == tmp[2]
         IN  <<y1 - (phi \div e) * x1, x1>>

(***************************************************************************)
(* TRSAKeys, GenerateRSAKeys, Encode, Decode                               *)
(***************************************************************************)
TRSAKeys(openKey, privateKey, module) ==
    [PublicKey |-> <<openKey, module>>, PrivateKey |-> <<privateKey, module>>]

\* min(bitsCount, 32)
OpenExpBitsLimit == 32

\* the loop left as soon as privateExp is no longer its initial -1
RetryUntilSet(privateExp) == privateExp = -1

\* while (privateExp < 0)
RetryLoopCondition(privateExp) == privateExp < 0

\* Encode: the warning and the returned value
Encode(value, publicKey) ==
    [warning |-> value >= publicKey[2],
     ret |-> BinPower(value, publicKey[1], publicKey[2])]

\* Decode with the two halves of the key swapped
DecodeSwappedKey(value, privateKey) == BinPower(value, privateKey[2], privateKey[1])

Decode(value, privateKey) == BinPower(value, privateKey[1], privateKey[2])

(***************************************************************************)
(* Inputs                                                                  *)
(***************************************************************************)
RECURSIVE NoDivisorFrom(_, _)
NoDivisorFrom(n, d) == IF d * d > n THEN TRUE ELSE n % d # 0 /\ NoDivisorFrom(n, d + 1)

IsTruePrime(n) == n > 1 /\ NoDivisorFrom(n, 2)

IsOddPrime(n) == n > 2 /\ IsTruePrime(n)

OddPrimes(max) == { n \in 3..max : IsOddPrime(n) }

BitsCounts == 2..MaxBits

(***************************************************************************)
(* The program                                                             *)
(***************************************************************************)
Init ==
    /\ pc = "main"
    /\ frame = <<>>

\* main calls BinPower(base, power, mod)
CallBinPower ==
    /\ pc = "main"
    /\ \E base \in 0..MaxBase, power \in 0..MaxPower, mod \in (1..MaxMod) \cup {1000} :
         frame' = [base |-> base, power |-> power, mod |-> mod,
                   ret |-> BinPower(base, power, mod)]
    /\ pc' = "BinPower"

\* main calls IsPrime(value); IsPrime(1) does not return (value - 1 has no set bit)
CallIsPrime ==
    /\ pc = "main"
    /\ \E value \in (0..MaxValue) \ {1} :
         frame' = [value |-> value, run |-> IsPrimeRun(value)]
    /\ pc' = "IsPrime"

\* main calls ExtendedEuclidian(e, phi)
CallExtendedEuclidian ==
    /\ pc = "main"
    /\ \E e \in 0..MaxEuclid, phi \in 0..MaxEuclid :
         frame' = [e |-> e, phi |-> phi, ret |-> ExtendedEuclidian(e, phi)]
    /\ pc' = "ExtendedEuclidian"

\* main calls GeneratePrime(bits), which calls FPrime(bits): up to the loop
CallFPrime ==
    /\ pc = "main"
    /\ \E bits \in BitsCounts \cup {WideBits} :
         frame' = [bits |-> bits, e |-> PublicExp, mask |-> Mask(bits),
                   count |-> 0, value |-> 0]
    /\ pc' = "FPrime"

\* one iteration of FPrime's loop
FPrimeIteration ==
    /\ pc = "FPrime"
    /\ \E draws \in EngineDraws(frame.bits) :
         LET count == IF frame.count < MaxCount THEN frame.count + 1 ELSE frame.count
             value == BitOr(GetRandBits(frame.bits, draws), frame.mask)
         IN  IF Accepts(value, frame.e)
             THEN /\ frame' = [frame EXCEPT !.count = count, !.value = value] @@ [ret |-> value]
                  /\ pc' = "FPrimeReturned"
             ELSE /\ frame' = [frame EXCEPT !.count = count, !.value = value]
                  /\ pc' = "FPrime"

\* main calls GenerateRSAKeys(p, q, bitsCount): up to the loop
CallGenerateRSAKeys ==
    /\ pc = "main"
    /\ \E p \in OddPrimes(MaxPrime), q \in OddPrimes(MaxPrime), bitsCount \in BitsCounts :
         frame' = [p |-> p, q |-> q, bitsCount |-> bitsCount,
                   moduleValue |-> p * q, phi |-> (p - 1) * (q - 1),
                   openExp |-> 0, privateExp |-> -1]
    /\ pc' = "GenerateRSAKeys"

\* one iteration of GenerateRSAKeys' loop, once GeneratePrime has returned
GenerateRSAKeysIteration ==
    /\ pc = "GenerateRSAKeys"
    /\ RetryLoopCondition(frame.privateExp)
    /\ \E openExp \in GeneratePrimeResults(Min(frame.bitsCount, OpenExpBitsLimit)) :
         LET temp == ExtendedEuclidian(openExp, frame.phi)
             privateExpValue == temp[1]
         IN  frame' = [frame EXCEPT !.openExp = openExp, !.privateExp = privateExpValue]
    /\ pc' = "GenerateRSAKeys"

\* the loop is left: the check of the exponents and the return
GenerateRSAKeysReturn ==
    /\ pc = "GenerateRSAKeys"
    /\ ~RetryLoopCondition(frame.privateExp)
    /\ frame' = frame @@
                [warning |-> (frame.openExp * frame.privateExp) % frame.phi # 1,
                 ret |-> TRSAKeys(frame.openExp, frame.privateExp, frame.moduleValue)]
    /\ pc' = "GenerateRSAKeysReturned"

\* main builds a key pair: TRSAKeys(openKey, privateKey, module)
MakeKeys ==
    /\ pc = "main"
    /\ \E p \in OddPrimes(MaxCipherPrime), q \in OddPrimes(MaxCipherPrime),
          openKey \in 1..MaxKeyExp, privateKey \in 1..MaxKeyExp :
         frame' = [rsaKeys |-> TRSAKeys(openKey, privateKey, p * q)]
    /\ pc' = "keys"

\* encrypted = Encode(value, rsaKeys.PublicKey)
CallEncode ==
    /\ pc = "keys"
    /\ \E value \in 0..frame.rsaKeys.PublicKey[2] :
         LET run == Encode(value, frame.rsaKeys.PublicKey)
         IN  frame' = frame @@ [value |-> value, warning |-> run.warning,
                                encrypted |-> run.ret]
    /\ pc' = "encoded"

\* decrypted = Decode(encrypted, rsaKeys.PrivateKey)
CallDecode ==
    /\ pc = "encoded"
    /\ frame' = frame @@ [decrypted |-> Decode(frame.encrypted, frame.rsaKeys.PrivateKey)]
    /\ pc' = "decoded"

Next ==
    \/ CallBinPower
    \/ CallIsPrime
    \/ CallExtendedEuclidian
    \/ CallFPrime
    \/ FPrimeIteration
    \/ CallGenerateRSAKeys
    \/ GenerateRSAKeysIteration
    \/ GenerateRSAKeysReturn
    \/ MakeKeys
    \/ CallEncode
    \/ CallDecode

Spec == Init /\ [][Next]_vars

(***************************************************************************)
(* Definitions the properties are stated with.  They use the arithmetic    *)
(* of the integer type and the primes of the inputs, and none of           *)
(* BinPower, IsPrime, FPrime, ExtendedEuclidian, Encode or Decode.         *)
(***************************************************************************)
SmallPrimes == {3, 5, 7, 11, 13, 17, 19, 23, 29, 31}

HasSmallFactor(n) == \E sp \in SmallPrimes : n % sp = 0

RECURSIVE BitLength(_)
BitLength(n) == IF n = 0 THEN 0 ELSE 1 + BitLength(n \div 2)

RECURSIVE NaivePow(_, _, _)
NaivePow(b, n, m) == IF n = 0 THEN 1 ELSE (NaivePow(b, n - 1, m) * b) % m

\* b^n mod m by right-to-left square and multiply
RECURSIVE ModExpAcc(_, _, _, _)
ModExpAcc(b, n, m, acc) ==
    IF n = 0 THEN acc
    ELSE ModExpAcc(MulMod(b, b, m), n \div 2, m,
                   IF n % 2 = 1 THEN MulMod(acc, b, m) ELSE acc)

ModExp(b, n, m) == ModExpAcc(b % m, n, m, 1 % m)

\* the s with n = 2^s * odd, for n > 0
TwoAdic(n) == CHOOSE s \in 0..30 : n % (2 ^ s) = 0 /\ (n \div (2 ^ s)) % 2 = 1

\* n is a strong probable prime to base 2
StrongProbablePrime2(n) ==
    LET s == TwoAdic(n - 1)
        d == (n - 1) \div (2 ^ s)
    IN  \/ ModExp(2, d, n) = 1
        \/ \E r \in 0..(s - 1) : ModExp(2, d * (2 ^ r), n) = n - 1

Divides(d, n) == n % d = 0

GCD(a, b) ==
    IF a = 0 /\ b = 0 THEN 0
    ELSE CHOOSE g \in 1..(a + b) :
           /\ Divides(g, a) /\ Divides(g, b)
           /\ \A h \in 1..(a + b) : Divides(h, a) /\ Divides(h, b) => h <= g

\* n = p * q for distinct odd primes p, q and e * d mod (p-1)(q-1) = 1,
\* both halves over n
ValidKeyPair(keys) ==
    LET n == keys.PublicKey[2]
        e == keys.PublicKey[1]
        d == keys.PrivateKey[1]
    IN  /\ keys.PrivateKey[2] = n
        /\ \E p \in OddPrimes(n), q \in OddPrimes(n) :
             /\ p # q
             /\ n = p * q
             /\ (e * d) % ((p - 1) * (q - 1)) = 1

(***************************************************************************)
(* C1                                                                      *)
(***************************************************************************)
\* C1: for every valid key pair (n = p*q, p and q distinct odd primes,
\* e*d mod (p-1)(q-1) = 1) and every message m with 0 <= m < n,
\* Decode(Encode(m, (e, n)), (d, n)) = m.
C1_RoundTrip ==
    (pc = "decoded" /\ ValidKeyPair(frame.rsaKeys)
                    /\ frame.value < frame.rsaKeys.PublicKey[2])
        => frame.decrypted = frame.value

\* a message that Encode changes and Decode restores, under e # d
C1_Witness ==
    /\ pc = "decoded"
    /\ ValidKeyPair(frame.rsaKeys)
    /\ frame.rsaKeys.PublicKey[1] # frame.rsaKeys.PrivateKey[1]
    /\ frame.rsaKeys.PublicKey[1] > 1
    /\ frame.value < frame.rsaKeys.PublicKey[2]
    /\ frame.encrypted # frame.value
    /\ frame.decrypted = frame.value

(***************************************************************************)
(* C2                                                                      *)
(***************************************************************************)
\* C2: whenever GenerateRSAKeys(p, q, bitsCount) returns, for odd primes p
\* and q, the returned exponents satisfy (e * d) mod phi = 1 with
\* phi = (p-1)(q-1).
C2_ReturnedExponentsInverse ==
    pc = "GenerateRSAKeysReturned"
        => (frame.ret.PublicKey[1] * frame.ret.PrivateKey[1]) % frame.phi = 1

(***************************************************************************)
(* C3                                                                      *)
(***************************************************************************)
\* C3: every value FPrime(bits) returns is odd, has bits bits-1 and bits-2
\* set and none at position >= bits (so it is at least 3 * 2^(bits-2)), has
\* no factor in {3,...,31}, is not congruent to 1 modulo 65537 and is a
\* strong probable prime to base 2.
C3_FPrimeResult ==
    pc = "FPrimeReturned" =>
        LET v == frame.ret
            bits == frame.bits
        IN  /\ v % 2 = 1
            /\ (v \div (2 ^ (bits - 1))) % 2 = 1
            /\ (v \div (2 ^ (bits - 2))) % 2 = 1
            /\ v < 2 ^ bits
            /\ v >= 3 * (2 ^ (bits - 2))
            /\ ~HasSmallFactor(v)
            /\ v % 65537 # 1
            /\ StrongProbablePrime2(v)

\* FPrime returns at a width where candidates congruent to 1 modulo 65537
\* exist, after at least one rejected candidate
C3_Witness ==
    /\ pc = "FPrimeReturned"
    /\ frame.bits > 16
    /\ frame.count >= 2
    /\ frame.ret > 65537

(***************************************************************************)
(* C4                                                                      *)
(***************************************************************************)
\* C4 as stated: IsPrime returns false for every even number and every
\* multiple of a prime in {3,...,31} right after the trial divisions,
\* without computing the decomposition or calling BinPower.
C4_RejectsEvenAndMultiplesAtOnce ==
    (pc = "IsPrime" /\ (frame.value % 2 = 0 \/ HasSmallFactor(frame.value)))
        => (frame.run.ret = FALSE /\ frame.run.trace = <<"trial">>)

\* C4 as amended: IsPrime returns false for every even number and every
\* multiple of a prime in {3,...,31}; a multiple of one of these primes is
\* rejected right after the trial divisions, and an even number with no
\* factor among them is rejected only after the decomposition (power = 0,
\* q = value) and the call BinPower(2, value, value), with no squaring.
C4_RejectsEvenAfterWitness ==
    pc = "IsPrime" =>
        /\ HasSmallFactor(frame.value)
             => (frame.run.ret = FALSE /\ frame.run.trace = <<"trial">>)
        /\ (frame.value % 2 = 0 /\ ~HasSmallFactor(frame.value))
             => /\ frame.run.ret = FALSE
                /\ frame.run.trace = <<"trial", "decompose", "BinPower", "loop">>
                /\ frame.run.power = 0
                /\ frame.run.q = frame.value
                /\ frame.run.squarings = 0

\* an even number without a small factor, rejected after the call of BinPower
C4_Witness ==
    /\ pc = "IsPrime"
    /\ frame.value % 2 = 0
    /\ frame.value > 100
    /\ ~HasSmallFactor(frame.value)
    /\ frame.run.ret = FALSE
    /\ Len(frame.run.trace) = 4

(***************************************************************************)
(* C5                                                                      *)
(***************************************************************************)
\* C5: for all non-negative a and b, ExtendedEuclidian(a, b) returns (x, y)
\* with a*x + b*y = gcd(a, b).
C5_Bezout ==
    pc = "ExtendedEuclidian"
        => frame.e * frame.ret[1] + frame.phi * frame.ret[2] = GCD(frame.e, frame.phi)

\* arguments that are not coprime, the first the larger, a negative coefficient
C5_Witness ==
    /\ pc = "ExtendedEuclidian"
    /\ frame.e > frame.phi
    /\ frame.phi > 0
    /\ GCD(frame.e, frame.phi) > 1
    /\ frame.ret[2] < 0
    /\ frame.e * frame.ret[1] + frame.phi * frame.ret[2] = GCD(frame.e, frame.phi)

(***************************************************************************)
(* C6                                                                      *)
(***************************************************************************)
\* C6: for base >= 0, exponent >= 0 and modulus > 1, BinPower equals the
\* power computed by repeated multiplication modulo the modulus, is 1 for
\* exponent 0, lies in 0..modulus-1, and BinPower(2, 10, 1000) = 24.
C6_BinPowerNaive ==
    (pc = "BinPower" /\ frame.mod > 1) =>
        /\ frame.ret = NaivePow(frame.base, frame.power, frame.mod)
        /\ frame.power = 0 => frame.ret = 1
        /\ frame.ret \in 0..(frame.mod - 1)
        /\ (frame.base = 2 /\ frame.power = 10 /\ frame.mod = 1000) => frame.ret = 24

C6_Witness ==
    /\ pc = "BinPower"
    /\ frame.base = 2
    /\ frame.power = 10
    /\ frame.mod = 1000
    /\ frame.ret = 24

(***************************************************************************)
(* C7                                                                      *)
(***************************************************************************)
\* C7: for every pair of odd primes p, q of bitsCount bits, the retry loop
\* of GenerateRSAKeys can be left: at least one candidate that
\* GeneratePrime(min(bitsCount, 32)) can return has a non-negative Bezout
\* coefficient.
C7_SomeCandidateAccepted ==
    (pc = "GenerateRSAKeys" /\ BitLength(frame.p) = frame.bitsCount
                            /\ BitLength(frame.q) = frame.bitsCount)
        => \E e \in GeneratePrimeResults(Min(frame.bitsCount, 32)) :
             ExtendedEuclidian(e, frame.phi)[1] >= 0

(***************************************************************************)
(* C8                                                                      *)
(***************************************************************************)
\* C8: every key pair GenerateRSAKeys(p, q, bitsCount) returns, for odd
\* primes p and q of bitsCount bits, has both halves over n = p*q and
\* exponents with 0 < e < phi and 0 < d < phi, phi = (p-1)(q-1).
C8_KeyPairRange ==
    (pc = "GenerateRSAKeysReturned" /\ BitLength(frame.p) = frame.bitsCount
                                    /\ BitLength(frame.q) = frame.bitsCount)
        => LET e == frame.ret.PublicKey[1]
               d == frame.ret.PrivateKey[1]
               phi == (frame.p - 1) * (frame.q - 1)
           IN  /\ frame.ret.PublicKey[2] = frame.p * frame.q
               /\ frame.ret.PrivateKey[2] = frame.p * frame.q
               /\ 0 < e /\ e < phi
               /\ 0 < d /\ d < phi

\* a pair returned for two different primes of bitsCount bits
C8_Witness ==
    /\ pc = "GenerateRSAKeysReturned"
    /\ BitLength(frame.p) = frame.bitsCount
    /\ BitLength(frame.q) = frame.bitsCount
    /\ frame.p # frame.q
    /\ frame.ret.PrivateKey[1] > 1

(***************************************************************************)
(* C9                                                                      *)
(***************************************************************************)
\* C9: for every odd value >= 3 with no factor in {3,...,31}, IsPrime
\* computes power >= 1 and odd q with value - 1 = 2^power * q, and returns
\* true exactly when 2^q mod value = 1 or 2^(q * 2^r) mod value = value - 1
\* for some 0 <= r < power; so every prime greater than 31 is accepted.
C9_StrongProbablePrime ==
    (pc = "IsPrime" /\ frame.value >= 3 /\ frame.value % 2 = 1
                    /\ ~HasSmallFactor(frame.value))
        => LET v == frame.value
               power == frame.run.power
               q == frame.run.q
           IN  /\ power >= 1
               /\ q % 2 = 1
               /\ v - 1 = (2 ^ power) * q
               /\ frame.run.ret
                    <=> \/ ModExp(2, q, v) = 1
                        \/ \E r \in 0..(power - 1) : ModExp(2, q * (2 ^ r), v) = v - 1
               /\ frame.run.ret <=> StrongProbablePrime2(v)
               /\ (IsTruePrime(v) /\ v > 31) => frame.run.ret

\* a prime accepted in the squaring loop, after more than one squaring
C9_Witness ==
    /\ pc = "IsPrime"
    /\ frame.value > 31
    /\ IsTruePrime(frame.value)
    /\ frame.run.ret
    /\ frame.run.power > 2
    /\ frame.run.squarings >= 2

(***************************************************************************)
(* C10                                                                     *)
(***************************************************************************)
\* C10: for every bit width bits >= 2, FPrime(bits) can return: some
\* candidate (r | mask) with 0 <= r < 2^bits is accepted by its loop.
C10_FPrimeCanReturn ==
    (pc = "FPrime" /\ frame.bits >= 2) => FPrimeResults(frame.bits) # {}

====
